---------------------------- MODULE Spec2Model ----------------------------
(***************************************************************************)
(* pyhemco.datatypes.ObjectCollection: an ordered collection of unique     *)
(* objects of one reference class, with selections (filter / get / sorted) *)
(* that carry a reference to the collection they were derived from.        *)
(*                                                                         *)
(* The heap `cols` holds one root collection (id 0) and the selections the *)
(* caller currently keeps in its variables (ids in SelIds).  Every public  *)
(* method is one action; `last` records the method called last and the     *)
(* exception it raised ("none" when it returned), `fired` the calls of the *)
(* add / remove callbacks that the method made, in their order.            *)
(***************************************************************************)
EXTENDS Integers, Sequences, FiniteSets, TLC

VARIABLES cols, last, calls, fired, dts

vars == <<cols, last, calls, fired, dts>>

---------------------------------------------------------------------------
(* Objects and classes.  Objects 1 and 2 are MyObject instances, 3 is an   *)
(* instance of a subclass of MyObject, 0 is 'a string'.  Two equal Python  *)
(* objects (obj1 and obj1b of the tests) are one value here: the code only *)
(* ever compares records with ==.                                          *)

\* Longest iterable handed to the constructor.
MaxInit == 3

\* Number of calls the client makes in one run (the constructor included).
MaxCalls == 4

Objects == {0, 1, 2, 3}

NoClass == "None"

Classes == {"MyObject", "SubObject", "str"}

ClassOf(obj) ==
    IF obj = 0 THEN "str" ELSE IF obj = 3 THEN "SubObject" ELSE "MyObject"

\* isinstance(obj, cls): the class itself or a subclass of it.
isinstance(obj, cls) ==
    \/ ClassOf(obj) = cls
    \/ cls = "MyObject" /\ ClassOf(obj) = "SubObject"

\* A predicate handed to filter / get, given by the objects it accepts.
Preds == SUBSET {1, 2, 3}

\* Attribute names handed to sorted and to filter / get as keywords: the
\* attribute x, and an attribute y that puts object 3 first and on which the
\* other objects tie.
Keys == {"x", "y"}

KeyOf(key, obj) ==
    IF key = "x" THEN obj ELSE IF obj = 3 THEN 0 ELSE 1

\* getattr(obj, attr_name) raises AttributeError on 'a string'.
hasattr(obj, attr_name) == obj # 0

\* The criteria handed to filter / get: the callables (*args), then the
\* attr_name=value pairs (**kwargs) in the order kwargs.items() gives them.
Criteria ==
    {[args |-> <<p>>, kwargs |-> <<>>] : p \in Preds} \cup
    {[args |-> <<>>, kwargs |-> <<>>],
     [args |-> <<>>, kwargs |-> << <<"x", 2>> >>],
     [args |-> <<{1, 2}, {2, 3}>>, kwargs |-> <<>>],
     [args |-> <<{1, 3}>>, kwargs |-> << <<"y", 1>> >>],
     [args |-> <<>>, kwargs |-> << <<"x", 3>>, <<"y", 0>> >>]}

\* Arguments tried for index= and for col[i].
IndexArgs == -1 .. MaxInit

---------------------------------------------------------------------------
(* Python list primitives, on 0-based indexes.                             *)

contains(l, obj) == \E k \in 1 .. Len(l) : l[k] = obj

\* list.index(obj): the 0-based position of the first equal element.
list_index(l, obj) ==
    (CHOOSE k \in 1 .. Len(l) : l[k] = obj /\ \A j \in 1 .. k - 1 : l[j] # obj) - 1

\* list.remove(obj): drops the first equal element.
list_remove(l, obj) ==
    LET k == list_index(l, obj) + 1
    IN  SubSeq(l, 1, k - 1) \o SubSeq(l, k + 1, Len(l))

\* list.insert(index, obj): negative indexes count from the end, and the
\* position is clamped to 0 .. len.
list_insert(l, index, obj) ==
    LET n  == Len(l)
        i0 == IF index < 0 THEN index + n ELSE index
        i  == IF i0 < 0 THEN 0 ELSE IF i0 > n THEN n ELSE i0
    IN  SubSeq(l, 1, i) \o <<obj>> \o SubSeq(l, i + 1, n)

\* l[index] is defined for -len <= index < len.
valid_index(l, index) == 0 - Len(l) <= index /\ index < Len(l)

getitem(l, index) == IF index < 0 THEN l[Len(l) + index + 1] ELSE l[index + 1]

\* filter(func, selection): the accepted elements, in order.
list_filter(l, p) == SelectSeq(l, LAMBDA obj : obj \in p)

\* filter(lambda obj: getattr(obj, attr_name) == attr_val, selection)
list_filter_attr(l, attr_name, attr_val) ==
    SelectSeq(l, LAMBDA obj : KeyOf(attr_name, obj) = attr_val)

\* sorted(list, key=key): ascending and stable (insertion after the last
\* element whose key is not greater).
RECURSIVE list_sorted(_, _)
list_sorted(l, key) ==
    IF l = <<>> THEN <<>>
    ELSE LET n    == Len(l)
             init == list_sorted(SubSeq(l, 1, n - 1), key)
             x    == l[n]
             k    == Cardinality({j \in 1 .. Len(init) :
                                    KeyOf(key, init[j]) <= KeyOf(key, x)})
         IN  SubSeq(init, 1, k) \o <<x>> \o SubSeq(init, k + 1, Len(init))

---------------------------------------------------------------------------
(* The collection object.                                                  *)

Root == 0

\* The client keeps two selections: Sel, made from the root, and Sub, made
\* from a selection (sel = root.filter(..); sub = sel.sorted(..)).
Sel == 1

Sub == 2

SelIds == {Sel, Sub}

Ids == {Root} \cup SelIds

\* The variable that receives a selection made from cols[c].
Target(c) == IF c = Root THEN Sel ELSE Sub

NoRef == -1

\* callbacks=(None, None), or a pair of functions of the caller that record,
\* in the log the caller keeps, the object they are called with and whether
\* the collection holds it at the time of the call.
NoCallbacks == "None"

Recording == "record"

\* A pair of recording functions whose add function raises, after it has
\* recorded the call, when it is handed the object Vetoed.
Vetoing == "veto"

Vetoed == 2

CallbackArgs == {NoCallbacks, Recording, Vetoing}

\* A variable of the caller that holds no collection (yet).
Unbound ==
    [list |-> <<>>, ref_class |-> NoClass, ref |-> NoRef,
     read_only |-> FALSE, callbacks |-> NoCallbacks, log |-> <<>>,
     live |-> FALSE]

\* The fields __init__ sets before it adds the initial objects.
EmptyCollection(callbacks, ref_class) ==
    [list |-> <<>>, ref_class |-> ref_class, ref |-> NoRef,
     read_only |-> FALSE, callbacks |-> callbacks, log |-> <<>>,
     live |-> TRUE]

\* if self._callback_add is not None: self._callback_add(obj)
callback_add(c, obj) ==
    IF c.callbacks = NoCallbacks THEN c
    ELSE [c EXCEPT !.log = Append(@, <<"add", obj, contains(c.list, obj)>>)]

\* if ref._callback_remove is not None: ref._callback_remove(obj)
callback_remove(ref, obj) ==
    IF ref.callbacks = NoCallbacks THEN ref
    ELSE [ref EXCEPT !.log = Append(@, <<"remove", obj, contains(ref.list, obj)>>)]

\* The add callback of c raises when it is called with obj.
callback_add_raises(c, obj) == c.callbacks = Vetoing /\ obj = Vetoed

check_read_only(c) == c.read_only

\* Mutant: the reference class follows the class of every object added.
set_ref_class_always(c, obj) ==
    [c EXCEPT !.ref_class = ClassOf(obj)]

\* add, line 128-129: the reference class is taken from the first object
\* handed to add, before any check.
set_ref_class(c, obj) ==
    [c EXCEPT !.ref_class = IF @ = NoClass THEN ClassOf(obj) ELSE @]

\* Mutant: the index is ignored and the object always appended.
insert_object_append(l, obj, index) == Append(l, obj)

\* add, line 139-142: append when index is -1, list.insert otherwise.
insert_object(l, obj, index) ==
    IF index = -1 THEN Append(l, obj) ELSE list_insert(l, index, obj)

\* Mutant: the callback is called before the insertion, so that a callback
\* that raises leaves the list as it was.
add_accepted_callback_first(c, obj, index) ==
    IF callback_add_raises(c, obj)
      THEN [err |-> "CallbackError", col |-> callback_add(c, obj)]
    ELSE [err |-> "none",
          col |-> callback_add([c EXCEPT !.list = insert_object(@, obj, index)],
                               obj)]

\* add, line 139-144: the insertion, then the add callback; an exception of
\* the callback leaves add with the object inserted.
add_accepted(c, obj, index) ==
    [err |-> IF callback_add_raises(c, obj) THEN "CallbackError" ELSE "none",
     col |-> callback_add([c EXCEPT !.list = insert_object(@, obj, index)],
                          obj)]

\* Mutant: no test for an equal object in the list.
add_checked_no_duplicate_test(c, obj, index) ==
    IF check_read_only(c)
      THEN [err |-> "ReadOnlyViolation", col |-> c]
    ELSE IF ~isinstance(obj, c.ref_class)
      THEN [err |-> "TypeMismatch", col |-> c]
    ELSE add_accepted(c, obj, index)

\* Mutant: the read-only test comes last.
add_checked_read_only_last(c, obj, index) ==
    IF ~isinstance(obj, c.ref_class)
      THEN [err |-> "TypeMismatch", col |-> c]
    ELSE IF contains(c.list, obj)
      THEN [err |-> "DuplicateRecord", col |-> c]
    ELSE IF check_read_only(c)
      THEN [err |-> "ReadOnlyViolation", col |-> c]
    ELSE add_accepted(c, obj, index)

\* Mutant: no isinstance test.
add_checked_no_type_test(c, obj, index) ==
    IF check_read_only(c)
      THEN [err |-> "ReadOnlyViolation", col |-> c]
    ELSE IF contains(c.list, obj)
      THEN [err |-> "DuplicateRecord", col |-> c]
    ELSE add_accepted(c, obj, index)

\* add, line 130-144: the checks, the insertion and then the callback, in
\* the code's order.
add_checked(c, obj, index) ==
    IF check_read_only(c)
      THEN [err |-> "ReadOnlyViolation", col |-> c]
    ELSE IF ~isinstance(obj, c.ref_class)
      THEN [err |-> "TypeMismatch", col |-> c]
    ELSE IF contains(c.list, obj)
      THEN [err |-> "DuplicateRecord", col |-> c]
    ELSE add_accepted(c, obj, index)

\* add(obj, index) on the collection c: the exception raised ("none" if
\* it returns) and c after the call.
add(c, obj, index) == add_checked(set_ref_class(c, obj), obj, index)

\* for obj in objects: self.add(obj) -- stops at the first exception.
RECURSIVE add_all(_, _)
add_next(r, objects) ==
    IF r.err # "none" THEN r ELSE add_all(r.col, objects)

add_all(c, objects) ==
    IF objects = <<>> THEN [err |-> "none", col |-> c]
    ELSE add_next(add(c, Head(objects), -1), Tail(objects))

\* __init__, line 65: the flag is set once the objects are in.
set_read_only(r, read_only) ==
    IF r.err # "none" THEN r
    ELSE [err |-> "none", col |-> [r.col EXCEPT !.read_only = read_only]]

\* Mutant: the flag is set before the objects are added.
ObjectCollection_flag_first(objects, callbacks, read_only, ref_class) ==
    add_all([EmptyCollection(callbacks, ref_class) EXCEPT !.read_only = read_only],
            objects)

\* ObjectCollection(objects, callbacks, read_only, ref_class).
ObjectCollection(objects, callbacks, read_only, ref_class) ==
    set_read_only(add_all(EmptyCollection(callbacks, ref_class), objects),
                  read_only)

\* Mutant: the selection always refers to the collection it was made from.
ref_of_subcollection_self(h, self) == self

\* _create_subcollection, line 87-90: the collection a selection derived
\* from h[self] refers to.
ref_of_subcollection(h, self) ==
    IF h[self].ref = NoRef THEN self ELSE h[self].ref

set_ref_collection(r, ref) ==
    IF r.err # "none" THEN r
    ELSE [err |-> "none", col |-> [r.col EXCEPT !.ref = ref]]

\* Mutant: the selection is made with the callbacks of the collection it is
\* derived from.
create_subcollection_callbacks(h, self, sel_objects) ==
    set_ref_collection(ObjectCollection(sel_objects, h[self].callbacks, FALSE,
                                        NoClass),
                       ref_of_subcollection(h, self))

\* Mutant: the selection is made with the reference class of the collection
\* it is derived from.
create_subcollection_ref_class(h, self, sel_objects) ==
    set_ref_collection(ObjectCollection(sel_objects, NoCallbacks, FALSE,
                                        h[self].ref_class),
                       ref_of_subcollection(h, self))

\* _create_subcollection(sel_objects) called on h[self].
create_subcollection(h, self, sel_objects) ==
    set_ref_collection(ObjectCollection(sel_objects, NoCallbacks, FALSE, NoClass),
                       ref_of_subcollection(h, self))

\* Mutant: the size of a get() selection is not tested.
get_ref_collection_or_error_any_size(c, get) ==
    IF c.ref = NoRef THEN "NoParentLink" ELSE "none"

\* _get_ref_collection_or_error(get): the exception raised, "none" if the
\* reference collection is returned.
get_ref_collection_or_error(c, get) ==
    IF c.ref = NoRef THEN "NoParentLink"
    ELSE IF get /\ Len(c.list) # 1 THEN "NotASingleton"
    ELSE "none"

\* Mutant: an object that is not in ref is skipped.
RECURSIVE remove_loop_skip_missing(_, _)
remove_loop_skip_missing(ref, objs) ==
    IF objs = <<>> THEN [err |-> "none", col |-> ref]
    ELSE IF ~contains(ref.list, Head(objs))
      THEN remove_loop_skip_missing(ref, Tail(objs))
    ELSE remove_loop_skip_missing(
             callback_remove([ref EXCEPT !.list = list_remove(@, Head(objs))],
                             Head(objs)),
             Tail(objs))

\* Mutant: the remove callback is called before the object is taken out.
RECURSIVE remove_loop_callback_first(_, _)
remove_loop_callback_first(ref, objs) ==
    IF objs = <<>> THEN [err |-> "none", col |-> ref]
    ELSE IF ~contains(ref.list, Head(objs))
      THEN [err |-> "NotInList", col |-> callback_remove(ref, Head(objs))]
    ELSE remove_loop_callback_first(
             [callback_remove(ref, Head(objs)) EXCEPT
                 !.list = list_remove(@, Head(objs))],
             Tail(objs))

\* The loop of remove(): ref._list.remove(obj), then the remove callback of
\* ref, for each selected object; list.remove raises ValueError at the first
\* object that is not in ref.
RECURSIVE remove_loop(_, _)
remove_loop(ref, objs) ==
    IF objs = <<>> THEN [err |-> "none", col |-> ref]
    ELSE IF ~contains(ref.list, Head(objs))
      THEN [err |-> "NotInList", col |-> ref]
    ELSE remove_loop(callback_remove([ref EXCEPT !.list = list_remove(@, Head(objs))],
                                     Head(objs)),
                     Tail(objs))

\* The collection the loop of remove() works on is the reference collection.
remove_from(h, ref, out) ==
    [err |-> out.err, heap |-> [h EXCEPT ![ref] = out.col]]

\* remove() called on h[self]: the exception and the heap after the call.
remove(h, self) ==
    IF check_read_only(h[self])
      THEN [err |-> "ReadOnlyViolation", heap |-> h]
    ELSE IF get_ref_collection_or_error(h[self], FALSE) # "none"
      THEN [err |-> get_ref_collection_or_error(h[self], FALSE), heap |-> h]
    ELSE remove_from(h, h[self].ref,
                     remove_loop(h[h[self].ref], h[self].list))

\* [ref._list.index(obj) for obj in self._list]
index_list(reflist, objs) ==
    IF \E k \in 1 .. Len(objs) : ~contains(reflist, objs[k])
      THEN [err |-> "NotInList", ret |-> <<>>]
    ELSE [err |-> "none",
          ret |-> [k \in 1 .. Len(objs) |-> list_index(reflist, objs[k])]]

\* index() called on h[self]: the positions of the selected objects in the
\* reference collection.
index(h, self) ==
    IF get_ref_collection_or_error(h[self], FALSE) # "none"
      THEN [err |-> get_ref_collection_or_error(h[self], FALSE), ret |-> <<>>]
    ELSE index_list(h[h[self].ref].list, h[self].list)

\* replace, line 157: ref.add(new_obj, index=obj_index).
replace_add(h, ref, ad) ==
    [err |-> ad.err, heap |-> [h EXCEPT ![ref] = ad.col]]

\* Mutant: the new object is appended instead of inserted at obj_index.
replace_removed_append(rm, ref, new_obj, obj_index) ==
    IF rm.err # "none" THEN rm
    ELSE replace_add(rm.heap, ref, add(rm.heap[ref], new_obj, -1))

\* replace, line 156-157: self.remove(), then the add.
replace_removed(rm, ref, new_obj, obj_index) ==
    IF rm.err # "none" THEN rm
    ELSE replace_add(rm.heap, ref, add(rm.heap[ref], new_obj, obj_index))

\* Mutant: the new object is added to the selection, self.add, instead of
\* to the reference collection.
replace_indexed_self_add(h, self, new_obj, ix) ==
    IF ix.err # "none" THEN [err |-> ix.err, heap |-> h]
    ELSE IF ix.ret = <<>> THEN [err |-> "IndexError", heap |-> h]
    ELSE replace_removed(remove(h, self), self, new_obj, ix.ret[1])

\* Mutant: a replace whose add fails puts the heap back as it was.
restored(h, r) == IF r.err # "none" THEN [err |-> r.err, heap |-> h] ELSE r

replace_indexed_atomic(h, self, new_obj, ix) ==
    IF ix.err # "none" THEN [err |-> ix.err, heap |-> h]
    ELSE IF ix.ret = <<>> THEN [err |-> "IndexError", heap |-> h]
    ELSE restored(h, replace_removed(remove(h, self), h[self].ref, new_obj,
                                     ix.ret[1]))

\* replace, line 153-157: obj_index = self.index()[0], then remove and add.
replace_indexed(h, self, new_obj, ix) ==
    IF ix.err # "none" THEN [err |-> ix.err, heap |-> h]
    ELSE IF ix.ret = <<>> THEN [err |-> "IndexError", heap |-> h]
    ELSE replace_removed(remove(h, self), h[self].ref, new_obj, ix.ret[1])

\* replace(new_obj) called on h[self].
replace(h, self, new_obj) ==
    IF check_read_only(h[self])
      THEN [err |-> "ReadOnlyViolation", heap |-> h]
    ELSE IF get_ref_collection_or_error(h[self], TRUE) # "none"
      THEN [err |-> get_ref_collection_or_error(h[self], TRUE), heap |-> h]
    ELSE replace_indexed(h, self, new_obj, index(h, self))

\* sorted(key) called on h[self], key an attribute name: getattr raises
\* AttributeError on an object without the attribute.
sorted(h, self, key) ==
    IF \E k \in 1 .. Len(h[self].list) : ~hasattr(h[self].list[k], key)
      THEN [err |-> "AttributeError", col |-> h[self]]
    ELSE create_subcollection(h, self, list_sorted(h[self].list, key))

\* filter, line 249-250: one pass of filter(func, selection) per callable.
RECURSIVE filter_args(_, _)
filter_args(selection, args) ==
    IF args = <<>> THEN selection
    ELSE filter_args(list_filter(selection, Head(args)), Tail(args))

\* filter, line 251-253: one pass per attr_name=value pair; getattr raises
\* AttributeError at the first object without the attribute.
RECURSIVE filter_kwargs(_, _)
filter_kwargs(selection, kwargs) ==
    IF kwargs = <<>> THEN [err |-> "none", list |-> selection]
    ELSE IF \E k \in 1 .. Len(selection) : ~hasattr(selection[k], Head(kwargs)[1])
      THEN [err |-> "AttributeError", list |-> selection]
    ELSE filter_kwargs(list_filter_attr(selection, Head(kwargs)[1], Head(kwargs)[2]),
                       Tail(kwargs))

filter_selected(h, self, selection) ==
    IF selection.err # "none" THEN [err |-> selection.err, col |-> h[self]]
    ELSE create_subcollection(h, self, selection.list)

\* filter(*args, **kwargs) called on h[self].
filter(h, self, args, kwargs) ==
    filter_selected(h, self,
                    filter_kwargs(filter_args(h[self].list, args), kwargs))

\* get, line 283-289: the size check on the selection filter returned.
get_checked(selection) ==
    IF selection.err # "none" THEN selection
    ELSE IF Len(selection.col.list) > 1
      THEN [err |-> "AmbiguousSelection", col |-> selection.col]
    ELSE IF selection.col.list = <<>>
      THEN [err |-> "RecordNotFound", col |-> selection.col]
    ELSE selection

\* get(*args, **kwargs) called on h[self].
get(h, self, args, kwargs) == get_checked(filter(h, self, args, kwargs))

\* The selection self.get(lambda obj: obj == del_obj) of __setitem__ and
\* __delitem__ lives only during the call, under the id Tmp.
Tmp == 99

with_tmp(h, c) == (Tmp :> c) @@ h

without_tmp(r) == [err |-> r.err, heap |-> [id \in Ids |-> r.heap[id]]]

setitem_selected(h, g, new_obj) ==
    IF g.err # "none" THEN [err |-> g.err, heap |-> h]
    ELSE without_tmp(replace(with_tmp(h, g.col), Tmp, new_obj))

\* col[index] = new_obj.
setitem(h, self, idx, new_obj) ==
    IF ~valid_index(h[self].list, idx) THEN [err |-> "IndexError", heap |-> h]
    ELSE setitem_selected(h, get(h, self, <<{getitem(h[self].list, idx)}>>, <<>>), new_obj)

delitem_selected(h, g) ==
    IF g.err # "none" THEN [err |-> g.err, heap |-> h]
    ELSE without_tmp(remove(with_tmp(h, g.col), Tmp))

\* del col[index].
delitem(h, self, idx) ==
    IF ~valid_index(h[self].list, idx) THEN [err |-> "IndexError", heap |-> h]
    ELSE delitem_selected(h, get(h, self, <<{getitem(h[self].list, idx)}>>, <<>>))

---------------------------------------------------------------------------
(* pyhemco.timetools.DatetimeSlicer.  A time stamp is a sequence of       *)
(* characters; the Python string and list functions the class uses are    *)
(* written out on such sequences.                                          *)

\* _str_dt_sep, _str_value_sep, _str_range_sep, _str_wildcard_char
str_dt_sep == "/"

str_value_sep == ","

str_range_sep == "-"

str_wildcard_char == "*"

DigitValue ==
    ("0" :> 0) @@ ("1" :> 1) @@ ("2" :> 2) @@ ("3" :> 3) @@ ("4" :> 4) @@
    ("5" :> 5) @@ ("6" :> 6) @@ ("7" :> 7) @@ ("8" :> 8) @@ ("9" :> 9)

IsDigits(s) == s # <<>> /\ \A k \in 1 .. Len(s) : s[k] \in DOMAIN DigitValue

\* s.split(sep): the pieces between the occurrences of sep.
RECURSIVE split(_, _)
split(s, sep) ==
    IF \A k \in 1 .. Len(s) : s[k] # sep THEN <<s>>
    ELSE LET k == CHOOSE i \in 1 .. Len(s) :
                     s[i] = sep /\ \A j \in 1 .. i - 1 : s[j] # sep
         IN  <<SubSeq(s, 1, k - 1)>> \o split(SubSeq(s, k + 1, Len(s)), sep)

\* sep.join(strs)
RECURSIVE join(_, _)
join(sep, strs) ==
    IF strs = <<>> THEN <<>>
    ELSE IF Len(strs) = 1 THEN strs[1]
    ELSE strs[1] \o <<sep>> \o join(sep, Tail(strs))

\* int(val) raises ValueError unless val is an optional sign and digits.
is_int(val) ==
    \/ IsDigits(val)
    \/ Len(val) > 1 /\ val[1] = "-" /\ IsDigits(Tail(val))

RECURSIVE digits_value(_)
digits_value(s) ==
    IF s = <<>> THEN 0
    ELSE 10 * digits_value(SubSeq(s, 1, Len(s) - 1)) + DigitValue[s[Len(s)]]

\* int(val), for a val that is_int accepts.
int(val) ==
    IF val[1] = "-" THEN 0 - digits_value(Tail(val)) ELSE digits_value(val)

\* "{0}".format(n): the decimal digits of n.
RECURSIVE digits_of(_)
digits_of(n) ==
    IF n < 10 THEN <<CHOOSE c \in DOMAIN DigitValue : DigitValue[c] = n>>
    ELSE digits_of(n \div 10) \o digits_of(n % 10)

format_int(n) == IF n < 0 THEN <<"-">> \o digits_of(0 - n) ELSE digits_of(n)

\* range(start, stop, step) as a list, step # 0.
range(start, stop, step) ==
    LET n == IF step > 0
               THEN (IF stop > start THEN (stop - start + step - 1) \div step ELSE 0)
               ELSE (IF start > stop THEN (start - stop - step - 1) \div (0 - step) ELSE 0)
    IN  [i \in 1 .. n |-> start + (i - 1) * step]

\* min(l), max(l) of a non-empty list of integers.
min(l) == CHOOSE v \in {l[k] : k \in 1 .. Len(l)} : \A k \in 1 .. Len(l) : v <= l[k]

max(l) == CHOOSE v \in {l[k] : k \in 1 .. Len(l)} : \A k \in 1 .. Len(l) : v >= l[k]

\* _parse_fmt, line 109-111: val is not an integer; it is split on '-', the
\* pieces are converted with int, the second is increased by one and the
\* list is handed to range.
parse_range(dt_elem, parts) ==
    IF \E k \in 1 .. Len(parts) : ~is_int(parts[k])
      THEN [err |-> "ValueError", elem |-> dt_elem]
    ELSE IF Len(parts) = 1
      THEN [err |-> "IndexError", elem |-> dt_elem]
    ELSE IF Len(parts) = 2
      THEN [err |-> "none",
            elem |-> dt_elem \o range(int(parts[1]), int(parts[2]) + 1, 1)]
    ELSE IF Len(parts) = 3
      THEN IF int(parts[3]) = 0
             THEN [err |-> "ValueError", elem |-> dt_elem]
           ELSE [err |-> "none",
                 elem |-> dt_elem \o range(int(parts[1]), int(parts[2]) + 1,
                                           int(parts[3]))]
    ELSE [err |-> "TypeError", elem |-> dt_elem]

\* _parse_fmt, line 105-111: the values of one field.
RECURSIVE parse_values(_, _)
parse_value(r, vals) ==
    IF r.err # "none" THEN r ELSE parse_values(r.elem, vals)

parse_values(dt_elem, vals) ==
    IF vals = <<>> THEN [err |-> "none", elem |-> dt_elem]
    ELSE IF is_int(Head(vals))
      THEN parse_values(Append(dt_elem, int(Head(vals))), Tail(vals))
    ELSE parse_value(parse_range(dt_elem, split(Head(vals), str_range_sep)),
                     Tail(vals))

\* _parse_fmt, line 101-112: a wildcard field is skipped by `continue`,
\* before anything is appended to args for it.
RECURSIVE parse_elems(_, _)
parse_elem(r, args, str_list) ==
    IF r.err # "none" THEN [err |-> r.err, args |-> args]
    ELSE parse_elems(Append(args, r.elem), str_list)

parse_elems(args, str_list) ==
    IF str_list = <<>> THEN [err |-> "none", args |-> args]
    ELSE IF Head(str_list) = <<str_wildcard_char>>
      THEN parse_elems(args, Tail(str_list))
    ELSE parse_elem(parse_values(<<>>, split(Head(str_list), str_value_sep)),
                    args, Tail(str_list))

\* _parse_fmt(fmt): the exception raised and the list args.
parse_fmt(fmt) == parse_elems(<<>>, split(fmt, str_dt_sep))

\* The fields of a DatetimeSlicer before line 75 of __init__.
NewFields(years, months, days, hours) ==
    [years |-> years, months |-> months, days |-> days, hours |-> hours,
     interval |-> "unset", freq |-> "unset", has_emptylist |-> FALSE]

\* No DatetimeSlicer: the call raised before it returned one.
NoSlicer == NewFields(<<>>, <<>>, <<>>, <<>>)

\* relativedelta(<unit>=+1).  Line 16 (from dateutil import relativedelta)
\* binds the name to the module dateutil.relativedelta, not to the class of
\* that name in it, and calling a module raises TypeError.
relativedelta(unit) == [err |-> "TypeError", val |-> unit]

\* The interval None handed to _change_timespan on line 85.
no_interval == [err |-> "none", val |-> "None"]

\* __init__, line 75-77.
init_timespan(self, interval) ==
    IF interval.err # "none" THEN [err |-> interval.err, self |-> self]
    ELSE [err |-> "none",
          self |-> [self EXCEPT !.interval = interval.val, !.freq = "HOURLY",
                                !.has_emptylist = FALSE]]

\* _change_timespan(freq, interval), the argument interval evaluated first.
change_timespan(r, freq, interval) ==
    IF interval.err # "none" THEN [err |-> interval.err, self |-> r.self]
    ELSE IF ~r.self.has_emptylist
      THEN [err |-> "InconsistentGranularity", self |-> r.self]
    ELSE [err |-> "none",
          self |-> [r.self EXCEPT !.interval = interval.val, !.freq = freq,
                                  !.has_emptylist = TRUE]]

\* __init__, line 78-85: if not self.<field>: self._change_timespan(...)
when_empty(r, field, freq, unit) ==
    IF r.err # "none" THEN r
    ELSE IF r.self[field] # <<>> THEN r
    ELSE change_timespan(r, freq,
                         IF unit = "None" THEN no_interval ELSE relativedelta(unit))

\* DatetimeSlicer(years, months, days, hours): the exception raised and the
\* object as __init__ left it.
DatetimeSlicer(years, months, days, hours) ==
    when_empty(
      when_empty(
        when_empty(
          when_empty(init_timespan(NewFields(years, months, days, hours),
                                   relativedelta("hours")),
                     "hours", "DAILY", "days"),
          "days", "MONTHLY", "months"),
        "months", "YEARLY", "years"),
      "years", "None", "None")

\* from_string, line 125-129: ValueError and TypeError of _parse_fmt become
\* the ValueError "Invalid string"; cls(*args) is outside the try and raises
\* TypeError unless args holds exactly four lists.
from_string_args(r) ==
    IF r.err # "none" THEN [err |-> "InvalidTimestampFormat", self |-> NoSlicer]
    ELSE IF Len(r.args) # 4 THEN [err |-> "TypeError", self |-> NoSlicer]
    ELSE DatetimeSlicer(r.args[1], r.args[2], r.args[3], r.args[4])

\* DatetimeSlicer.from_string(fmt) and strp_datetimeslicer(fmt).
from_string(fmt) == from_string_args(parse_fmt(fmt))

\* to_string, line 142-150: one field.  A list equal to the range from its
\* minimum to its maximum is written min-max; any other non-empty list is
\* handed to ','.join, which raises TypeError on a list of integers.
to_string_elem(dt_elem) ==
    IF dt_elem = <<>> THEN [err |-> "none", str |-> <<str_wildcard_char>>]
    ELSE IF dt_elem = range(min(dt_elem), max(dt_elem) + 1, 1)
      THEN [err |-> "none",
            str |-> format_int(min(dt_elem)) \o <<str_range_sep>> \o
                    format_int(max(dt_elem))]
    ELSE [err |-> "TypeError", str |-> <<>>]

RECURSIVE to_string_elems(_, _)
to_string_next(r, str_list, elems) ==
    IF r.err # "none" THEN [err |-> r.err, str |-> <<>>]
    ELSE to_string_elems(Append(str_list, r.str), elems)

to_string_elems(str_list, elems) ==
    IF elems = <<>> THEN [err |-> "none", str |-> join(str_dt_sep, str_list)]
    ELSE to_string_next(to_string_elem(Head(elems)), str_list, Tail(elems))

\* self.to_string()
to_string(self) ==
    to_string_elems(<<>>, <<self.years, self.months, self.days, self.hours>>)

\* datetime(year, month, day, hour) raises ValueError outside the calendar.
days_in_month(year, month) ==
    IF month = 2
      THEN IF (year % 4 = 0 /\ year % 100 # 0) \/ year % 400 = 0 THEN 29 ELSE 28
    ELSE IF month \in {4, 6, 9, 11} THEN 30 ELSE 31

valid_datetime(year, month, day, hour) ==
    /\ year \in 1 .. 9999
    /\ month \in 1 .. 12
    /\ day \in 1 .. days_in_month(year, month)
    /\ hour \in 0 .. 23

\* datetime.min, and datetime.max to the minute.
datetime_min == <<1, 1, 1, 0, 0>>

datetime_max == <<9999, 12, 31, 23, 59>>

\* self.<field> or (<default>,)
or_default(l, default) == IF l = <<>> THEN <<default>> ELSE l

\* __iter__, line 157-168, the first year: from_dt and to_dt are made, then
\* rrule.rrule is called with the keyword dstart, which it does not have
\* (its parameter is dtstart): TypeError, before any slice is yielded.
iterate_year(year, months, days, hours) ==
    IF \/ ~valid_datetime(year, min(months), min(days), min(hours))
       \/ ~valid_datetime(year, max(months), max(days), max(hours))
      THEN [err |-> "ValueError", slices |-> <<>>]
    ELSE [err |-> "TypeError", slices |-> <<>>]

\* list(self): the exception raised and the (start, end) pairs yielded.
iterate(self) ==
    IF self.years = <<>>
      THEN [err |-> "none", slices |-> << <<datetime_min, datetime_max>> >>]
    ELSE iterate_year(self.years[1], or_default(self.months, 1),
                      or_default(self.days, 1), or_default(self.hours, 0))

---------------------------------------------------------------------------
(* The state machine: calls made by a client of the collection.            *)

Init ==
    /\ cols = [id \in Ids |-> Unbound]
    /\ last = [op |-> "start", err |-> "none"]
    /\ calls = 0
    /\ fired = <<>>
    /\ dts = [op |-> "none", fmt |-> <<>>, args |-> <<>>, err |-> "none",
              parsed |-> <<>>, self |-> NoSlicer, str |-> <<>>,
              slices |-> <<>>]

InitArgs ==
    UNION {[1 .. n -> Objects] : n \in 0 .. MaxInit}

\* Every call counts against the length of the run.
Tick ==
    /\ calls < MaxCalls
    /\ calls' = calls + 1
    /\ dts' = dts

\* The calls of the callbacks are handed to `fired`; the log of a collection
\* is empty between two calls.
unlogged(c) == [c EXCEPT !.log = <<>>]

\* A call that returns a collection binds it to the variable t; a call that
\* raises binds nothing.
Returned(op, t, r) ==
    /\ cols' = IF r.err = "none" THEN [cols EXCEPT ![t] = unlogged(r.col)] ELSE cols
    /\ last' = [op |-> op, err |-> r.err]
    /\ fired' = r.col.log

\* A call that works on the heap in place.
Mutated(op, r) ==
    /\ cols' = [id \in Ids |-> unlogged(r.heap[id])]
    /\ last' = [op |-> op, err |-> r.err]
    /\ fired' = r.heap[Root].log

\* A call that only returns a value.
Queried(op, r) ==
    /\ cols' = cols
    /\ last' = [op |-> op, err |-> r.err]
    /\ fired' = <<>>

\* root = ObjectCollection(objects, callbacks=cb, read_only=ro, ref_class=rc)
Construct(objects, cb, ro, rc) ==
    /\ Tick
    /\ ~cols[Root].live
    /\ Returned("init", Root, ObjectCollection(objects, cb, ro, rc))

\* The outcome of c.add(obj, index=idx).
Added(c, r) ==
    /\ cols' = [cols EXCEPT ![c] = unlogged(r.col)]
    /\ last' = [op |-> "add", err |-> r.err]
    /\ fired' = r.col.log

\* c.add(obj, index=idx)
Add(c, obj, idx) ==
    /\ Tick
    /\ cols[c].live
    /\ Added(c, add(cols[c], obj, idx))

\* s.remove()
Remove(s) ==
    /\ Tick
    /\ cols[s].live
    /\ Mutated("remove", remove(cols, s))

\* s.replace(new_obj)
Replace(s, new_obj) ==
    /\ Tick
    /\ cols[s].live
    /\ Mutated("replace", replace(cols, s, new_obj))

\* s.index()
Index(s) ==
    /\ Tick
    /\ cols[s].live
    /\ Queried("index", index(cols, s))

\* Target(c) = c.filter(*args, **kwargs)
Filter(c, args, kwargs) ==
    /\ Tick
    /\ cols[c].live
    /\ Returned("filter", Target(c), filter(cols, c, args, kwargs))

\* Target(c) = c.get(*args, **kwargs)
Get(c, args, kwargs) ==
    /\ Tick
    /\ cols[c].live
    /\ Returned("get", Target(c), get(cols, c, args, kwargs))

\* c.get_object(p)
GetObject(c, args, kwargs) ==
    /\ Tick
    /\ cols[c].live
    /\ Queried("get_object", get(cols, c, args, kwargs))

\* Target(c) = c.sorted(key)
Sorted(c, key) ==
    /\ Tick
    /\ cols[c].live
    /\ Returned("sorted", Target(c), sorted(cols, c, key))

\* c[idx] = new_obj
SetItem(c, idx, new_obj) ==
    /\ Tick
    /\ cols[c].live
    /\ Mutated("setitem", setitem(cols, c, idx, new_obj))

\* del c[idx]
DelItem(c, idx) ==
    /\ Tick
    /\ cols[c].live
    /\ Mutated("delitem", delitem(cols, c, idx))

Next ==
    \/ \E objects \in InitArgs, ro \in BOOLEAN, rc \in Classes \cup {NoClass} :
          Construct(objects, NoCallbacks, ro, rc)
    \/ \E c \in Ids, obj \in Objects, idx \in IndexArgs : Add(c, obj, idx)
    \/ \E s \in Ids : Remove(s)
    \/ \E s \in Ids, new_obj \in Objects : Replace(s, new_obj)
    \/ \E s \in Ids : Index(s)
    \/ \E c \in Ids, crit \in Criteria : Filter(c, crit.args, crit.kwargs)
    \/ \E c \in Ids, crit \in Criteria : Get(c, crit.args, crit.kwargs)
    \/ \E c \in Ids, crit \in Criteria : GetObject(c, crit.args, crit.kwargs)
    \/ \E c \in Ids, key \in Keys : Sorted(c, key)
    \/ \E c \in Ids, idx \in IndexArgs, new_obj \in Objects : SetItem(c, idx, new_obj)
    \/ \E c \in Ids, idx \in IndexArgs : DelItem(c, idx)

Spec == Init /\ [][Next]_vars

\* The same client, with recording callbacks on the root.
NextH ==
    \/ \E objects \in InitArgs, ro \in BOOLEAN, rc \in Classes \cup {NoClass} :
          Construct(objects, Recording, ro, rc)
    \/ \E c \in Ids, obj \in Objects, idx \in IndexArgs : Add(c, obj, idx)
    \/ \E s \in Ids : Remove(s)
    \/ \E s \in Ids, new_obj \in Objects : Replace(s, new_obj)
    \/ \E s \in Ids : Index(s)
    \/ \E c \in Ids, crit \in Criteria : Filter(c, crit.args, crit.kwargs)
    \/ \E c \in Ids, crit \in Criteria : Get(c, crit.args, crit.kwargs)
    \/ \E c \in Ids, crit \in Criteria : GetObject(c, crit.args, crit.kwargs)
    \/ \E c \in Ids, key \in Keys : Sorted(c, key)
    \/ \E c \in Ids, idx \in IndexArgs, new_obj \in Objects : SetItem(c, idx, new_obj)
    \/ \E c \in Ids, idx \in IndexArgs : DelItem(c, idx)

SpecH == Init /\ [][NextH]_vars

\* The same client, with callbacks on the root whose add function raises on
\* one object.
NextV ==
    \/ \E objects \in InitArgs, ro \in BOOLEAN, rc \in Classes \cup {NoClass} :
          Construct(objects, Vetoing, ro, rc)
    \/ \E c \in Ids, obj \in Objects, idx \in IndexArgs : Add(c, obj, idx)
    \/ \E s \in Ids : Remove(s)
    \/ \E s \in Ids, new_obj \in Objects : Replace(s, new_obj)
    \/ \E s \in Ids : Index(s)
    \/ \E c \in Ids, crit \in Criteria : Filter(c, crit.args, crit.kwargs)
    \/ \E c \in Ids, crit \in Criteria : Get(c, crit.args, crit.kwargs)
    \/ \E c \in Ids, crit \in Criteria : GetObject(c, crit.args, crit.kwargs)
    \/ \E c \in Ids, key \in Keys : Sorted(c, key)
    \/ \E c \in Ids, idx \in IndexArgs, new_obj \in Objects : SetItem(c, idx, new_obj)
    \/ \E c \in Ids, idx \in IndexArgs : DelItem(c, idx)

SpecV == Init /\ [][NextV]_vars

---------------------------------------------------------------------------
(* A client of DatetimeSlicer makes one call on its input; `dts` records   *)
(* the input, the call, the exception it raised and what it returned.      *)

\* The fields time stamps are made of.
YearFields ==
    {<<"*">>, <<"2", "0", "1", "3">>,
     <<"2", "0", "1", "0", ",", "2", "0", "1", "2">>,
     <<"2", "0", "1", "0", "-", "2", "0", "1", "2">>}

MonthFields ==
    {<<"*">>, <<"6">>, <<"1", "-", "3">>, <<"3", "-", "1">>, <<"1", ",", "3">>}

DayFields == {<<"*">>, <<"1">>, <<"1", ",", "5">>, <<"x">>}

HourFields == {<<"*">>, <<"0">>, <<"1">>, <<"0", "-">>}

\* Time stamps handed to from_string: four fields, and some texts that do
\* not have four.
Texts ==
    {join(str_dt_sep, <<y, m, d, h>>) :
        y \in YearFields, m \in MonthFields, d \in DayFields, h \in HourFields}
    \cup {<<>>, <<"2", "0", "1", "3">>,
          <<"2", "0", "1", "3", "/", "6", "/", "1">>,
          <<"2", "0", "1", "3", "/", "6", "/", "1", "/", "0", "/", "0">>,
          <<"2", "0", "1", "3", "/", "1", "-", "5", "-", "2", "/", "1", "/", "0">>,
          <<"2", "0", "1", "3", "/", "1", "-", "5", "-", "0", "/", "1", "/", "0">>,
          <<"2", "0", "1", "3", "/", "1", "-", "2", "-", "3", "-", "4", "/", "1", "/", "0">>,
          <<"2", "0", "1", "3", "/", "-", "1", "/", "1", "/", "0">>}

\* Lists handed to the constructor.
YearLists == {<<>>, <<2013>>, <<2010, 2012>>, <<2010, 2011, 2012>>}

MonthLists == {<<>>, <<6>>, <<1, 2, 3>>, <<1, 3>>, <<13>>}

DayLists == {<<>>, <<1>>, <<1, 5>>}

HourLists == {<<>>, <<0>>, <<1>>}

ArgLists ==
    {<<y, m, d, h>> :
        y \in YearLists, m \in MonthLists, d \in DayLists, h \in HourLists}

\* What a slicer is made from: a time stamp, or the four lists.
Sources ==
    {[fmt |-> fmt, args |-> <<>>] : fmt \in Texts} \cup
    {[fmt |-> <<>>, args |-> args] : args \in ArgLists}

\* DatetimeSlicer.from_string(src.fmt), or DatetimeSlicer(*src.args).
make(src) ==
    IF src.args = <<>> THEN from_string(src.fmt)
    ELSE DatetimeSlicer(src.args[1], src.args[2], src.args[3], src.args[4])

\* Calling a method on what make returned.
to_string_made(r) ==
    IF r.err # "none" THEN [err |-> r.err, str |-> <<>>] ELSE to_string(r.self)

iterate_made(r) ==
    IF r.err # "none" THEN [err |-> r.err, slices |-> <<>>] ELSE iterate(r.self)

\* The list _parse_fmt handed to from_string, empty if it raised.
parsed_args(r) == IF r.err = "none" THEN r.args ELSE <<>>

Made(op, src, r, parsed) ==
    dts' = [op |-> op, fmt |-> src.fmt, args |-> src.args, err |-> r.err,
            parsed |-> parsed,
            self |-> IF r.err = "none" THEN r.self ELSE NoSlicer,
            str |-> <<>>, slices |-> <<>>]

Formatted(src, r) ==
    dts' = [op |-> "to_string", fmt |-> src.fmt, args |-> src.args,
            err |-> r.err, parsed |-> <<>>, self |-> NoSlicer, str |-> r.str,
            slices |-> <<>>]

Iterated(src, r) ==
    dts' = [op |-> "iter", fmt |-> src.fmt, args |-> src.args,
            err |-> r.err, parsed |-> <<>>, self |-> NoSlicer, str |-> <<>>,
            slices |-> r.slices]

\* The client has its input, and has not called anything yet.
InitT ==
    /\ cols = [id \in Ids |-> Unbound]
    /\ last = [op |-> "start", err |-> "none"]
    /\ calls = 0
    /\ fired = <<>>
    /\ \E src \in Sources :
          dts = [op |-> "none", fmt |-> src.fmt, args |-> src.args,
                 err |-> "none", parsed |-> <<>>, self |-> NoSlicer,
                 str |-> <<>>, slices |-> <<>>]

\* The input the client has.
Input == [fmt |-> dts.fmt, args |-> dts.args]

\* DatetimeSlicer.from_string(fmt)
FromString ==
    /\ dts.op = "none"
    /\ dts.args = <<>>
    /\ Made("from_string", Input, from_string(dts.fmt),
            parsed_args(parse_fmt(dts.fmt)))
    /\ UNCHANGED <<cols, last, calls, fired>>

\* DatetimeSlicer(*args)
NewSlicer ==
    /\ dts.op = "none"
    /\ dts.args # <<>>
    /\ Made("init", Input,
            DatetimeSlicer(dts.args[1], dts.args[2], dts.args[3], dts.args[4]),
            <<>>)
    /\ UNCHANGED <<cols, last, calls, fired>>

\* make(src).to_string()
Format ==
    /\ dts.op = "none"
    /\ Formatted(Input, to_string_made(make(Input)))
    /\ UNCHANGED <<cols, last, calls, fired>>

\* list(make(src))
Iterate ==
    /\ dts.op = "none"
    /\ Iterated(Input, iterate_made(make(Input)))
    /\ UNCHANGED <<cols, last, calls, fired>>

NextT == FromString \/ NewSlicer \/ Format \/ Iterate

SpecT == InitT /\ [][NextT]_vars

---------------------------------------------------------------------------
(* Properties.                                                             *)

RootList == cols[Root].list

\* The 1-based position of obj in the sequence l.
PosOf(l, obj) == list_index(l, obj) + 1

Distinct(l) == \A i, j \in 1 .. Len(l) : i # j => l[i] # l[j]

\* C1: whatever add, remove, replace, col[i] = x and del col[i] were
\* applied to it, directly or through selections, the root collection
\* never holds two equal records.
C1_NoDuplicates == Distinct(RootList)

\* A root of three records, the last of them put there by a replace.
C1_Witness ==
    /\ last = [op |-> "replace", err |-> "none"]
    /\ Len(RootList) = 3

\* C2 (as claimed): nothing changes the records of a read-only root; add
\* on it, and remove and replace on any selection derived from it, raise
\* the read-only error.
C2_ReadOnlyRejects ==
    [][(cols[Root].live /\ cols[Root].read_only) =>
         /\ cols'[Root].list = cols[Root].list
         /\ \A obj \in Objects, idx \in IndexArgs :
               Add(Root, obj, idx) => last'.err = "ReadOnlyViolation"
         /\ \A s \in SelIds :
               Remove(s) => last'.err = "ReadOnlyViolation"
         /\ \A s \in SelIds, new_obj \in Objects :
               Replace(s, new_obj) => last'.err = "ReadOnlyViolation"]_vars

\* C3 (as claimed): root.filter(p) yields the records matching p, and
\* remove() on that selection leaves in the root exactly the records not
\* matching p, in their order, so that filter(p) on the root is then empty.
C3_FilterRemove ==
    [][\A p \in Preds :
         /\ Filter(Root, <<p>>, <<>>) =>
               /\ last'.err = "none"
               /\ cols'[Sel].list = list_filter(RootList, p)
         /\ (/\ Remove(Sel)
             /\ cols[Sel].ref = Root
             /\ cols[Sel].list = list_filter(RootList, p)) =>
               /\ last'.err = "none"
               /\ cols'[Root].list =
                     SelectSeq(RootList, LAMBDA obj : obj \notin p)
               /\ list_filter(cols'[Root].list, p) = <<>>]_vars

\* Every live collection that has a reference collection refers to a live
\* collection that has none.
RefIsRoot ==
    \A c \in Ids :
        (cols[c].live /\ cols[c].ref # NoRef) =>
            /\ cols[cols[c].ref].live
            /\ cols[cols[c].ref].ref = NoRef

\* remove() on a selection, however it was derived, leaves every selection
\* as it is and takes the selected records out of the root.
RemoveHitsRoot ==
    last'.op = "remove" =>
      \A s \in SelIds :
        (/\ cols[s].ref # NoRef
         /\ \A k \in 1 .. Len(cols[s].list) : contains(RootList, cols[s].list[k])
         /\ Remove(s)) =>
            /\ \A c \in SelIds : cols'[c] = cols[c]
            /\ cols'[Root].list =
                  SelectSeq(RootList, LAMBDA obj : ~contains(cols[s].list, obj))

\* C4: the reference collection of every collection made by filter, get or
\* sorted is the root, however long the chain that made it, and a remove()
\* at the end of a chain takes the records out of the root and out of no
\* intermediate selection.
C4_RefIsRoot == []RefIsRoot /\ [][RemoveHitsRoot]_vars

\* sub = sel.filter(..); sub.remove() took the records out of the root and
\* left them in sel.
C4_Witness ==
    /\ last = [op |-> "remove", err |-> "none"]
    /\ cols[Sel].live /\ cols[Sub].live
    /\ cols[Sub].list # <<>>
    /\ \A k \in 1 .. Len(cols[Sub].list) :
          /\ contains(cols[Sel].list, cols[Sub].list[k])
          /\ ~contains(RootList, cols[Sub].list[k])

\* The root after new_obj replaced the record old: same length, new_obj
\* where old was, every other record where it was.
ReplacedAt(old, new_obj) ==
    /\ Len(cols'[Root].list) = Len(RootList)
    /\ \A k \in 1 .. Len(RootList) :
          cols'[Root].list[k] =
              IF k = PosOf(RootList, old) THEN new_obj ELSE RootList[k]

\* new_obj may be put into the root: of its class and not yet in it.
Addable(new_obj) ==
    /\ isinstance(new_obj, cols[Root].ref_class)
    /\ ~contains(RootList, new_obj)

\* replace(new_obj) on a get() selection of the root, and root[idx] =
\* new_obj, put new_obj where the old record was.
ReplaceKeepsPlace ==
    /\ last'.op = "replace" =>
        \A s \in SelIds, new_obj \in Objects :
          (/\ cols[s].ref = Root
           /\ Len(cols[s].list) = 1
           /\ contains(RootList, cols[s].list[1])
           /\ Addable(new_obj)
           /\ Replace(s, new_obj)) =>
              (last'.err = "none" /\ ReplacedAt(cols[s].list[1], new_obj))
    /\ last'.op = "setitem" =>
        \A idx \in IndexArgs, new_obj \in Objects :
          (/\ valid_index(RootList, idx)
           /\ Addable(new_obj)
           /\ SetItem(Root, idx, new_obj)) =>
              (last'.err = "none" /\ ReplacedAt(getitem(RootList, idx), new_obj))

\* C5 (as claimed): get(p).replace(new) and col[i] = new on any root.
C5_ReplaceKeepsPlace_AnyRoot == [][ReplaceKeepsPlace]_vars

\* C5 (amended): the same on a root that is not read-only.
C5_ReplaceKeepsPlace == [][~cols[Root].read_only => ReplaceKeepsPlace]_vars

\* A replace on a get() selection put a new record into a root of two.
C5_Witness ==
    /\ last = [op |-> "replace", err |-> "none"]
    /\ Len(RootList) = 2
    /\ cols[Sel].live /\ Len(cols[Sel].list) = 1
    /\ ~contains(RootList, cols[Sel].list[1])
    /\ ~cols[Root].read_only

C7_TypeMismatchAlways ==
    [][last'.op = "add" =>
       \A c \in Ids, obj \in Objects, idx \in IndexArgs :
         (/\ cols[c].ref_class # NoClass
          /\ ClassOf(obj) # cols[c].ref_class
          /\ Add(c, obj, idx)) =>
            (last'.err = "TypeMismatch" /\ cols' = cols)]_vars

\* C7 (amended): add of a record that is no instance of the reference
\* class (of the class or of a subclass) raises TypeMismatch unless the
\* collection is read-only, where it raises the read-only error; nothing
\* changes.
C7_TypeMismatch ==
    [][last'.op = "add" =>
       \A c \in Ids, obj \in Objects, idx \in IndexArgs :
         (/\ cols[c].ref_class # NoClass
          /\ ~isinstance(obj, cols[c].ref_class)
          /\ Add(c, obj, idx)) =>
            /\ last'.err = IF cols[c].read_only THEN "ReadOnlyViolation"
                           ELSE "TypeMismatch"
            /\ cols' = cols]_vars

\* An add was refused for its type on a root that holds records.
C7_Witness ==
    /\ last = [op |-> "add", err |-> "TypeMismatch"]
    /\ Len(RootList) >= 2

\* All records of a collection are instances of its reference class.
AllInstances ==
    \A c \in Ids : \A k \in 1 .. Len(cols[c].list) :
        isinstance(cols[c].list[k], cols[c].ref_class)

\* The reference class of a collection, once set, stays (a selection
\* variable may be bound to a new collection by filter, get or sorted).
RefClassStays ==
    \A c \in Ids :
        (/\ cols[c].live
         /\ cols[c].ref_class # NoClass
         /\ (c = Root \/ last'.op \notin {"filter", "get", "sorted"})) =>
            cols'[c].ref_class = cols[c].ref_class

\* The constructor takes the reference class given, or else the class of
\* the first record.
RefClassGiven ==
    last' = [op |-> "init", err |-> "none"] =>
      \A objects \in InitArgs, ro \in BOOLEAN, rc \in Classes \cup {NoClass} :
        (\E cb \in CallbackArgs : Construct(objects, cb, ro, rc)) =>
            cols'[Root].ref_class =
                IF rc # NoClass THEN rc
                ELSE IF objects # <<>> THEN ClassOf(objects[1]) ELSE NoClass

\* C8: the reference class is fixed once it is established, and all
\* records of a collection belong to it.
C8_RefClass == []AllInstances /\ [][RefClassStays /\ RefClassGiven]_vars

\* A subclass instance was added to a root whose class came from its
\* first record.
C8_Witness ==
    /\ last = [op |-> "add", err |-> "none"]
    /\ Len(RootList) >= 2
    /\ ClassOf(RootList[1]) = cols[Root].ref_class
    /\ \E k \in 1 .. Len(RootList) : ClassOf(RootList[k]) # cols[Root].ref_class

\* All records of the iterable are of one class.
OneType(objects) ==
    \A i, j \in 1 .. Len(objects) : ClassOf(objects[i]) = ClassOf(objects[j])

C10_Get ==
    [][\A c \in Ids, p \in Preds :
         Get(c, <<p>>, <<>>) =>
            /\ Len(list_filter(cols[c].list, p)) = 1 =>
                  /\ last'.err = "none"
                  /\ cols'[Target(c)].list = list_filter(cols[c].list, p)
            /\ Len(list_filter(cols[c].list, p)) = 0 =>
                  (last'.err = "RecordNotFound" /\ cols' = cols)
            /\ Len(list_filter(cols[c].list, p)) >= 2 =>
                  (last'.err = "AmbiguousSelection" /\ cols' = cols)]_vars
---------------------------------------------------------------------------

\* The records of l that satisfy every callable of args and every
\* attr_name=value pair of kwargs, in the order they have in l.
Matching(l, args, kwargs) ==
    SelectSeq(l, LAMBDA obj :
        /\ \A i \in 1 .. Len(args) : obj \in args[i]
        /\ \A i \in 1 .. Len(kwargs) : KeyOf(kwargs[i][1], obj) = kwargs[i][2])

\* Every record of l carries the attributes the keywords name.
HasAttrs(l) == \A k \in 1 .. Len(l) : hasattr(l[k], "x")

\* C11 (as claimed): filter(*args, **kwargs), called on a collection whose
\* records carry the attributes named, returns a selection holding exactly
\* the records that satisfy every callable and every attr_name=value
\* constraint, in the relative order they have in the collection filtered.
C11_FilterAnd ==
    [][last'.op = "filter" =>
         \A c \in Ids, crit \in Criteria :
            (HasAttrs(cols[c].list) /\ Filter(c, crit.args, crit.kwargs)) =>
               /\ last'.err = "none"
               /\ cols'[Target(c)].list = Matching(cols[c].list, crit.args, crit.kwargs)]_vars

\* c accepts obj: c is not read-only, obj is an instance of its reference
\* class (or c has none yet) and no equal record is in c.
Accepts(c, obj) ==
    /\ ~c.read_only
    /\ c.ref_class # NoClass => isinstance(obj, c.ref_class)
    /\ ~contains(c.list, obj)

\* C12: add(obj, index=i) on a collection of n records that accepts obj,
\* with 0 <= i <= n, returns and leaves n + 1 records with obj at position
\* i and the previous records around it in their order; add(obj) without
\* index (index = -1) puts obj after the previous records.
C12_AddAtIndex ==
    [][last'.op = "add" =>
         \A c \in Ids, obj \in Objects, idx \in IndexArgs :
            (/\ Accepts(cols[c], obj)
             /\ idx <= Len(cols[c].list)
             /\ Add(c, obj, idx)) =>
               LET n   == Len(cols[c].list)
                   pos == IF idx = -1 THEN n ELSE idx
               IN  /\ last'.err = "none"
                   /\ Len(cols'[c].list) = n + 1
                   /\ cols'[c].list[pos + 1] = obj
                   /\ SubSeq(cols'[c].list, 1, pos) = SubSeq(cols[c].list, 1, pos)
                   /\ SubSeq(cols'[c].list, pos + 2, n + 1) =
                         SubSeq(cols[c].list, pos + 1, n)]_vars

\* An add put record 3 between records 1 and 2 of the root.
C12_Witness ==
    /\ last = [op |-> "add", err |-> "none"]
    /\ RootList = <<1, 3, 2>>
    /\ ~cols[Sel].live

\* The call failed with the error kind err, changed no collection and
\* called no callback.
FailsUnchanged(err) ==
    /\ last'.err = err
    /\ cols' = cols
    /\ fired' = <<>>

\* C13 (as claimed): remove and replace on any collection without a
\* reference collection fail with NoParentLink, replace on a selection that
\* does not hold exactly one record fails with NotASingleton; nothing is
\* changed and no callback called.
C13_NoParent_AnyCollection ==
    [][last'.op \in {"remove", "replace"} =>
         \A s \in Ids, new_obj \in Objects :
            /\ (cols[s].ref = NoRef /\ (Remove(s) \/ Replace(s, new_obj))) =>
                  FailsUnchanged("NoParentLink")
            /\ (cols[s].ref # NoRef /\ Len(cols[s].list) # 1 /\ Replace(s, new_obj)) =>
                  FailsUnchanged("NotASingleton")]_vars

\* C13 (amended): remove and replace on a collection without a reference
\* collection fail with NoParentLink if the collection is not read-only and
\* with the read-only error if it is; replace on a selection that does not
\* hold exactly one record fails with NotASingleton; nothing is changed and
\* no callback called.
C13_NoParent ==
    [][last'.op \in {"remove", "replace"} =>
         \A s \in Ids, new_obj \in Objects :
            /\ (cols[s].ref = NoRef /\ (Remove(s) \/ Replace(s, new_obj))) =>
                  FailsUnchanged(IF cols[s].read_only THEN "ReadOnlyViolation"
                                 ELSE "NoParentLink")
            /\ (cols[s].ref # NoRef /\ Len(cols[s].list) # 1 /\ Replace(s, new_obj)) =>
                  FailsUnchanged("NotASingleton")]_vars

\* replace was refused on a selection of two records of a root of three
\* with callbacks.
C13_Witness ==
    /\ last = [op |-> "replace", err |-> "NotASingleton"]
    /\ cols[Root].callbacks = Recording
    /\ Len(RootList) = 3
    /\ Len(cols[Sel].list) = 2
    /\ ~cols[Sub].live

\* r holds the records of l in ascending order of key, records of equal
\* key in the order they have in l.
SortedStable(l, r, key) ==
    /\ Len(r) = Len(l)
    /\ \A k \in 1 .. Len(l) : contains(r, l[k])
    /\ \A i, j \in 1 .. Len(r) :
          i < j =>
            /\ KeyOf(key, r[i]) <= KeyOf(key, r[j])
            /\ KeyOf(key, r[i]) = KeyOf(key, r[j]) => PosOf(l, r[i]) < PosOf(l, r[j])

\* C14 (as claimed): sorted(key), called on a collection whose records
\* carry the attribute, returns a new selection with the same records in
\* ascending order of the key, records of equal key in their original
\* order, and reorders neither the collection it is called on nor the root.
C14_Sorted ==
    [][last'.op = "sorted" =>
         \A c \in Ids, key \in Keys :
            (HasAttrs(cols[c].list) /\ Sorted(c, key)) =>
               /\ last'.err = "none"
               /\ SortedStable(cols[c].list, cols'[Target(c)].list, key)
               /\ cols'[Target(c)].ref = Root
               /\ cols'[Root] = cols[Root]
               /\ c # Target(c) => cols'[c] = cols[c]]_vars

---------------------------------------------------------------------------
(* Properties of DatetimeSlicer.                                           *)

\* The lists a field in canonical form stands for: a wildcard for the empty
\* list, an integer for itself, a comma list for its values and a-b for
\* a, a+1, ..., b.
FieldLists ==
    (<<"*">> :> <<>>) @@
    (<<"2", "0", "1", "3">> :> <<2013>>) @@
    (<<"2", "0", "1", "0", ",", "2", "0", "1", "2">> :> <<2010, 2012>>) @@
    (<<"2", "0", "1", "0", "-", "2", "0", "1", "2">> :> <<2010, 2011, 2012>>) @@
    (<<"6">> :> <<6>>) @@
    (<<"1", "-", "3">> :> <<1, 2, 3>>) @@
    (<<"1", ",", "3">> :> <<1, 3>>) @@
    (<<"1">> :> <<1>>) @@
    (<<"1", ",", "5">> :> <<1, 5>>) @@
    (<<"0">> :> <<0>>)

\* Once a field is a wildcard (an empty list), every finer field is one.
Widening(fields, wildcard) ==
    \A i, j \in 1 .. 4 : (i < j /\ fields[i] = wildcard) => fields[j] = wildcard

\* Four fields in canonical form.
CanonicalFields ==
    {f \in YearFields \X MonthFields \X DayFields \X HourFields :
        \A i \in 1 .. 4 : f[i] \in DOMAIN FieldLists}

\* The lists the four fields stand for.
ListsOf(f) == <<FieldLists[f[1]], FieldLists[f[2]], FieldLists[f[3]], FieldLists[f[4]]>>

\* Canonical time stamps whose wildcards form a trailing run, such as
\* "2010,2012/1-3/1/0", "2013/6/1,5/*" and "2013/*/*/*".
IsCanonical(fmt) ==
    \E f \in CanonicalFields :
        fmt = join(str_dt_sep, f) /\ Widening(f, <<str_wildcard_char>>)

\* C15 (as claimed): format(parse(s)) = s for every canonical time stamp s.
C15_RoundTrip ==
    (dts.op = "to_string" /\ dts.args = <<>> /\ IsCanonical(dts.fmt)) =>
        (dts.err = "none" /\ dts.str = dts.fmt)

\* C16 (as claimed): parse of a time stamp in which a coarser field is a
\* wildcard while a finer field is concrete, such as "2013/*/*/1", fails
\* with InconsistentGranularity and yields no slicer.
C16_Inconsistent ==
    (/\ dts.op = "from_string"
     /\ \E f \in CanonicalFields :
           dts.fmt = join(str_dt_sep, f) /\ ~Widening(f, <<str_wildcard_char>>)) =>
        (dts.err = "InconsistentGranularity" /\ dts.self = NoSlicer)

\* The slicer the constructor is to make of four lists that widen: the
\* lists, and the interval of the finest list that is not empty.
IntervalOf(lists) ==
    IF lists[4] # <<>> THEN "hours"
    ELSE IF lists[3] # <<>> THEN "days"
    ELSE IF lists[2] # <<>> THEN "months"
    ELSE IF lists[1] # <<>> THEN "years"
    ELSE "None"

\* C17 (as claimed): parse of a canonical time stamp whose wildcards form a
\* trailing run yields four lists in year, month, day, hour order, an empty
\* list for a wildcard, and returns the slicer the constructor makes of
\* these four lists.
C17_Parse ==
    (dts.op = "from_string" /\ IsCanonical(dts.fmt)) =>
        \A f \in CanonicalFields :
            dts.fmt = join(str_dt_sep, f) =>
                /\ dts.err = "none"
                /\ dts.parsed = ListsOf(f)
                /\ <<dts.self.years, dts.self.months, dts.self.days,
                      dts.self.hours>> = ListsOf(f)
                /\ dts.self.interval = IntervalOf(ListsOf(f))

\* C18 (as claimed): the constructor, given four lists that widen, makes a
\* slicer whose interval is one hour if hours is not empty, one day if
\* hours is empty and days is not, one month if days is empty too, one
\* year if months is empty too, and unbounded (None) if years is empty.
C18_Interval ==
    (dts.op = "init" /\ Widening(dts.args, <<>>)) =>
        /\ dts.err = "none"
        /\ dts.self.interval = IntervalOf(dts.args)

\* The day after year-month-day, at the given hour.
NextDay(y, m, d, h) ==
    IF d < days_in_month(y, m) THEN <<y, m, d + 1, h, 0>>
    ELSE IF m < 12 THEN <<y, m + 1, 1, h, 0>>
    ELSE <<y + 1, 1, 1, h, 0>>

\* instant + interval
Plus(dt, interval) ==
    IF interval = "years" THEN <<dt[1] + 1, dt[2], dt[3], dt[4], 0>>
    ELSE IF interval = "months"
      THEN IF dt[2] < 12 THEN <<dt[1], dt[2] + 1, dt[3], dt[4], 0>>
           ELSE <<dt[1] + 1, 1, dt[3], dt[4], 0>>
    ELSE IF interval = "days" THEN NextDay(dt[1], dt[2], dt[3], dt[4])
    ELSE IF dt[4] < 23 THEN <<dt[1], dt[2], dt[3], dt[4] + 1, 0>>
    ELSE NextDay(dt[1], dt[2], dt[3], 0)

\* The pairs iterate is to yield for four ascending lists with years not
\* empty: year by year, one pair for every combination of month, day and
\* hour, an empty list counting as month 1, day 1, hour 0.
ExpectedSlices(lists) ==
    LET Y == lists[1]
        M == or_default(lists[2], 1)
        D == or_default(lists[3], 1)
        H == or_default(lists[4], 0)
        at(k) == <<Y[(k \div (Len(H) * Len(D) * Len(M))) + 1],
                   M[((k \div (Len(H) * Len(D))) % Len(M)) + 1],
                   D[((k \div Len(H)) % Len(D)) + 1],
                   H[(k % Len(H)) + 1], 0>>
    IN  [i \in 1 .. Len(Y) * Len(M) * Len(D) * Len(H) |->
            <<at(i - 1), Plus(at(i - 1), IntervalOf(lists))>>]

\* Four lists that widen, with years not empty and months of the calendar.
Iterable(lists) ==
    /\ Widening(lists, <<>>)
    /\ lists[1] # <<>>
    /\ \A k \in 1 .. Len(lists[2]) : lists[2][k] \in 1 .. 12

\* C19 (as claimed): for a slicer with years not empty, made by the
\* constructor or from a canonical time stamp, iterate yields, year by year
\* and in chronological order within a year, one pair (instant, instant +
\* interval) for every combination of month, day and hour.
C19_Iterate ==
    dts.op = "iter" =>
        /\ (dts.args # <<>> /\ Iterable(dts.args)) =>
              (dts.err = "none" /\ dts.slices = ExpectedSlices(dts.args))
        /\ (dts.args = <<>> /\ IsCanonical(dts.fmt)) =>
              \A f \in CanonicalFields :
                 (dts.fmt = join(str_dt_sep, f) /\ Iterable(ListsOf(f))) =>
                    (dts.err = "none" /\ dts.slices = ExpectedSlices(ListsOf(f)))

\* No list given: the full wildcard.
FullWildcard ==
    \/ dts.args = <<<<>>, <<>>, <<>>, <<>>>>
    \/ dts.args = <<>> /\ dts.fmt = <<"*", "/", "*", "/", "*", "/", "*">>

\* C20 (as claimed): with years empty (the full wildcard) the construction
\* succeeds and iterate yields exactly one pair, from the minimum to the
\* maximum instant.
C20_FullWildcard ==
    FullWildcard =>
        /\ dts.op \in {"init", "from_string"} => dts.err = "none"
        /\ dts.op = "iter" =>
              /\ dts.err = "none"
              /\ dts.slices = << <<datetime_min, datetime_max>> >>

---------------------------------------------------------------------------
(* Properties of the callbacks.                                            *)

---------------------------------------------------------------------------
(* Further properties of DatetimeSlicer.                                   *)

\* The values of l form a contiguous ascending run: v, v + 1, v + 2, ...
IsRun(l) == \A k \in 1 .. Len(l) : l[k] = l[1] + k - 1

\* The text of a field as the claim describes it: the wildcard for an empty
\* list, min-max for a contiguous ascending run, the values separated by
\* commas for any other list.
Rendered(l) ==
    IF l = <<>> THEN <<str_wildcard_char>>
    ELSE IF IsRun(l)
      THEN format_int(l[1]) \o <<str_range_sep>> \o format_int(l[Len(l)])
    ELSE join(str_value_sep, [k \in 1 .. Len(l) |-> format_int(l[k])])

RenderedAll(lists) ==
    join(str_dt_sep, [k \in 1 .. 4 |-> Rendered(lists[k])])

\* C21 (as claimed): format, called on the slicer made of four lists that
\* widen (by the constructor, or by parse from a canonical time stamp),
\* returns a string: the four fields joined with '/', each the wildcard, a
\* range min-max or a comma list.
C21_Format ==
    dts.op = "to_string" =>
        /\ (dts.args # <<>> /\ Widening(dts.args, <<>>)) =>
              (dts.err = "none" /\ dts.str = RenderedAll(dts.args))
        /\ (dts.args = <<>> /\ IsCanonical(dts.fmt)) =>
              \A f \in CanonicalFields :
                 dts.fmt = join(str_dt_sep, f) =>
                    (dts.err = "none" /\ dts.str = RenderedAll(ListsOf(f)))

\* val is an integer, or a range a-b of two integers.
IsValue(val) ==
    \/ is_int(val)
    \/ \E k \in 2 .. Len(val) - 1 :
          /\ val[k] = str_range_sep
          /\ is_int(SubSeq(val, 1, k - 1))
          /\ IsDigits(SubSeq(val, k + 1, Len(val)))

\* A field is the wildcard, a value, or values separated by commas.
IsField(str_elem) ==
    \/ str_elem = <<str_wildcard_char>>
    \/ \A k \in 1 .. Len(split(str_elem, str_value_sep)) :
          IsValue(split(str_elem, str_value_sep)[k])

\* The text splits on '/' into four fields.
WellFormed(fmt) ==
    /\ Len(split(fmt, str_dt_sep)) = 4
    /\ \A k \in 1 .. 4 : IsField(split(fmt, str_dt_sep)[k])

\* C22 (as claimed): parse fails with InvalidTimestampFormat on every text
\* that does not split into four fields or that has a field with a value
\* that is no integer, integer list or range a-b, and whatever the text, no
\* error of another kind than the two of parse (InvalidTimestampFormat,
\* InconsistentGranularity) leaves it.
C22_ParseErrors ==
    dts.op = "from_string" =>
        /\ ~WellFormed(dts.fmt) => dts.err = "InvalidTimestampFormat"
        /\ dts.err \in {"none", "InvalidTimestampFormat", "InconsistentGranularity"}

\* A descending range, 3-1, as it comes in the month field.
Descending == <<"3", "-", "1">>

\* Canonical fields but for the month, which is the descending range.
DescendingFields ==
    {f \in YearFields \X {Descending} \X DayFields \X HourFields :
        \A i \in {1, 3, 4} : f[i] \in DOMAIN FieldLists}

\* The lists such fields stand for: none for the descending range.
DescendingLists(f) ==
    <<FieldLists[f[1]], <<>>, FieldLists[f[3]], FieldLists[f[4]]>>

\* C30 (as claimed): a descending range parses to the empty list, and the
\* field is then treated as a wildcard is: parse fails with
\* InconsistentGranularity if a finer field is concrete (or a coarser one a
\* wildcard) and otherwise returns the slicer with the interval the empty
\* list selects, and format renders the field as '*'.
C30_DescendingRange ==
    \A f \in DescendingFields :
        (dts.args = <<>> /\ dts.fmt = join(str_dt_sep, f)) =>
            /\ dts.op = "from_string" =>
                  /\ Len(dts.parsed) = 4
                  /\ dts.parsed = DescendingLists(f)
                  /\ ~Widening(DescendingLists(f), <<>>) =>
                        dts.err = "InconsistentGranularity"
                  /\ Widening(DescendingLists(f), <<>>) =>
                        /\ dts.err = "none"
                        /\ dts.self.months = <<>>
                        /\ dts.self.interval = IntervalOf(DescendingLists(f))
            /\ (dts.op = "to_string" /\ Widening(DescendingLists(f), <<>>)) =>
                  /\ dts.err = "none"
                  /\ dts.str = RenderedAll(DescendingLists(f))

---------------------------------------------------------------------------
(* Further properties of the collection.                                   *)

\* A derived selection: a collection with a reference collection.
Derived(s) == cols[s].live /\ cols[s].ref # NoRef

\* remove and replace called on a derived selection leave the records of
\* every selection as they were.
SelectionsKept ==
    last'.op \in {"remove", "replace"} =>
      \A s \in SelIds, new_obj \in Objects :
        (Derived(s) /\ (Remove(s) \/ Replace(s, new_obj))) =>
            \A c \in SelIds : cols'[c] = cols[c]

AddCalls(l) == [k \in 1 .. Len(l) |-> <<"add", l[k], TRUE>>]

RemoveCalls(l) == [k \in 1 .. Len(l) |-> <<"remove", l[k], FALSE>>]

\* How many calls of the kind were made with obj.
CallsOf(log, kind, obj) ==
    Cardinality({k \in 1 .. Len(log) : log[k][1] = kind /\ log[k][2] = obj})

Count(l, obj) == Cardinality({k \in 1 .. Len(l) : l[k] = obj})

\* One call of the add callback for each record that came into the root
\* and one call of the remove callback for each record that left it, each
\* made after the change.
OncePerChange ==
    /\ \A obj \in Objects :
          Count(cols'[Root].list, obj) - Count(RootList, obj) =
              CallsOf(fired', "add", obj) - CallsOf(fired', "remove", obj)
    /\ \A k \in 1 .. Len(fired') : fired'[k][3] = (fired'[k][1] = "add")

\* The calls made by each method that changes the root, in their order.
CallsInOrder ==
    /\ last' = [op |-> "init", err |-> "none"] =>
          fired' = AddCalls(cols'[Root].list)
    /\ last'.op = "add" =>
          \A obj \in Objects, idx \in IndexArgs :
             Add(Root, obj, idx) =>
                fired' = IF last'.err = "none" THEN AddCalls(<<obj>>) ELSE <<>>
    /\ last' = [op |-> "remove", err |-> "none"] =>
          \A s \in SelIds :
             (Derived(s) /\ Remove(s)) => fired' = RemoveCalls(cols[s].list)
    /\ last' = [op |-> "replace", err |-> "none"] =>
          \A s \in SelIds, new_obj \in Objects :
             (Derived(s) /\ Replace(s, new_obj)) =>
                fired' = RemoveCalls(cols[s].list) \o AddCalls(<<new_obj>>)

\* C24: the callbacks of the root are called once per change of the root's
\* records, in the order of the changes and each after its change: the add
\* callback for each initial record and each successful add, the root's
\* remove callback for each record removed through a selection, and for a
\* replace the remove callback for the old record, then the add callback
\* for the new one.
C24_Hooks ==
    [][/\ CallsInOrder
       /\ (cols[Root].live \/ last' = [op |-> "init", err |-> "none"]) =>
             OncePerChange]_vars

\* A replace on the root of three records called the remove callback for
\* record 2 and then the add callback for record 3, which took its place.
C24_Witness ==
    /\ last = [op |-> "replace", err |-> "none"]
    /\ cols[Root].callbacks = Recording
    /\ fired = << <<"remove", 2, FALSE>>, <<"add", 3, TRUE>> >>
    /\ RootList = <<1, 3>>

\* The call left the collection c it was made on, and the root, with their
\* records, reference class and read-only flag, and called no callback.  (A
\* call on the selection held in Sub binds its result to Sub.)
QueryFrame(c) ==
    /\ cols'[Root] = cols[Root]
    /\ c # Target(c) => cols'[c] = cols[c]
    /\ fired' = <<>>

\* A query that raised bound no selection: every collection is as it was.
QueryFailFrame == last'.err # "none" => cols' = cols

\* C26: filter, get, get_object, sorted and index leave the collection they
\* are called on and its root unchanged and call no callback of the root,
\* whether they return or raise; the selection they make has no callbacks.
C26_PureQueries ==
    [][last'.op \in {"filter", "get", "get_object", "sorted", "index"} =>
         /\ QueryFailFrame
         /\ \A c \in Ids :
               \/ QueryFrame(c)
               \/ ~ \/ \E crit \in Criteria :
                         \/ Filter(c, crit.args, crit.kwargs)
                         \/ Get(c, crit.args, crit.kwargs)
                         \/ GetObject(c, crit.args, crit.kwargs)
                     \/ \E key \in Keys : Sorted(c, key)
                     \/ Index(c)
         /\ last'.op \in {"get_object", "index"} => cols' = cols
         /\ \A s \in SelIds :
               (cols'[s] # cols[s]) => cols'[s].callbacks = NoCallbacks]_vars

\* sel = root.filter(..) selected two of the three records of a root with
\* callbacks, and no callback was called.
C26_Witness ==
    /\ last = [op |-> "filter", err |-> "none"]
    /\ cols[Root].callbacks = Recording
    /\ Len(RootList) = 3
    /\ Len(cols[Sel].list) = 2
    /\ fired = <<>>

\* The error add raises for a record the root does not accept.
AddError(c, obj) ==
    IF c.read_only THEN "ReadOnlyViolation"
    ELSE IF ~isinstance(obj, c.ref_class) THEN "TypeMismatch"
    ELSE "DuplicateRecord"

\* C27: get(p).replace(new) with new already in the root (and not the
\* selected record) or not of the reference class fails in its add, after
\* the selected record was removed from the root and the root's remove
\* callback called: the root ends one record shorter, without the selected
\* record and without new in its place.
C27_ReplaceNotAtomic ==
    [][last'.op = "replace" =>
         \A s \in SelIds, new_obj \in Objects :
            (/\ Derived(s)
             /\ Len(cols[s].list) = 1
             /\ contains(RootList, cols[s].list[1])
             /\ \/ new_obj # cols[s].list[1] /\ contains(RootList, new_obj)
                \/ ~isinstance(new_obj, cols[Root].ref_class)
             /\ Replace(s, new_obj)) =>
               /\ last'.err = AddError(cols[Root], new_obj)
               /\ cols'[Root].list = list_remove(RootList, cols[s].list[1])
               /\ Len(cols'[Root].list) = Len(RootList) - 1
               /\ fired' = RemoveCalls(cols[s].list)
               /\ \A c \in SelIds : cols'[c] = cols[c]]_vars

\* sel = root.get(..); sel.replace(3) with 3 in the root of three records:
\* the add raised, and the selected record is gone from the root.
C27_Witness ==
    /\ last = [op |-> "replace", err |-> "DuplicateRecord"]
    /\ cols[Root].callbacks = Recording
    /\ Len(RootList) = 2
    /\ Len(cols[Sel].list) = 1
    /\ ~contains(RootList, cols[Sel].list[1])
    /\ fired = RemoveCalls(cols[Sel].list)
    /\ ~cols[Sub].live

\* The number of records at the head of l that are in the root.
RECURSIVE InRootPrefix(_)
InRootPrefix(l) ==
    IF l = <<>> \/ ~contains(RootList, Head(l)) THEN 0
    ELSE 1 + InRootPrefix(Tail(l))

\* A step that changes the root's records changes no selection.
Snapshot ==
    cols'[Root].list # RootList => \A s \in SelIds : cols'[s] = cols[s]

\* remove() on a selection that holds a record the root no longer holds
\* raises at the first such record: the records before it are out of the
\* root, their remove callbacks called, and the root's other records stay.
RemoveStopsAtMissing ==
    last'.op = "remove" =>
      \A s \in SelIds :
        (/\ Derived(s)
         /\ InRootPrefix(cols[s].list) < Len(cols[s].list)
         /\ Remove(s)) =>
            LET removed == SubSeq(cols[s].list, 1, InRootPrefix(cols[s].list))
            IN  /\ last'.err = "NotInList"
                /\ cols'[Root].list =
                      SelectSeq(RootList, LAMBDA obj : ~contains(removed, obj))
                /\ fired' = RemoveCalls(removed)
                /\ \A c \in SelIds : cols'[c] = cols[c]

\* C28: a selection keeps the records it was made with whatever happens to
\* the root afterwards, and remove() on a selection with a record that is
\* no longer in the root raises at that record, after the earlier records
\* of the selection were removed from the root and before any later one.
C28_Snapshot == [][Snapshot /\ RemoveStopsAtMissing]_vars

\* sel = root.filter(..) holds 1, 2, 3; del root[1] took 2 out of the root;
\* sel.remove() then removed 1, raised at 2 and left 3 in the root.
C28_Witness ==
    /\ last = [op |-> "remove", err |-> "NotInList"]
    /\ cols[Root].callbacks = Recording
    /\ cols[Sel].list = <<1, 2, 3>>
    /\ RootList = <<3>>
    /\ fired = RemoveCalls(<<1>>)

\* The selection made of the records sel fails: its reference class is the
\* class of its first record, and a later record is no instance of it.
Unselectable(sel) ==
    sel # <<>> /\ \E k \in 2 .. Len(sel) : ~isinstance(sel[k], ClassOf(sel[1]))

\* What filter or sorted does with the records sel it selected in c: a
\* type error and nothing changed, or a selection whose reference class is
\* the class of its first record, whatever the reference class of c.
SelectionMade(c, sel) ==
    IF Unselectable(sel)
      THEN last'.err = "TypeMismatch" /\ cols' = cols
    ELSE /\ last'.err = "none"
         /\ cols'[Target(c)].list = sel
         /\ cols'[Target(c)].ref_class =
               IF sel = <<>> THEN NoClass ELSE ClassOf(sel[1])

====
